---- MODULE Spec2Model ----
(***************************************************************************)
(* Model of gyk/rock-paper-scissors: the Hand / Round value types of       *)
(* src/game.rs and the session registry with its request handlers of       *)
(* src/main.rs.  Every request is served by a worker thread; the registry  *)
(* SESSIONS is one RwLock<HashMap<user id, Session>>.                      *)
(***************************************************************************)
EXTENDS Integers, Sequences, FiniteSets, TLC

\* ---------------------------------------------------------------- bounds
\* Worker threads serving requests concurrently.
NumWorkers == 2
\* Requests served in one run of the model.
MaxReqs == 4

Workers == 1..NumWorkers
\* Display names typed into the login form.
Names == {"alice", "bob"}

None == "None"

\* ------------------------------------------------------------ game.rs: Hand
Hands == {"Rock", "Paper", "Scissors"}

\* vs as a linear ranking Rock < Paper < Scissors, the cycle not closed.
vs_Linear(self, rhs) ==
    IF self = rhs THEN "Equal"
    ELSE IF <<self, rhs>> \in {<<"Rock", "Paper">>, <<"Paper", "Scissors">>,
                               <<"Rock", "Scissors">>}
         THEN "Less"
         ELSE "Greater"

\* vs without the arm (Scissors, Rock) => Less.
vs_MissingArm(self, rhs) ==
    IF self = rhs THEN "Equal"
    ELSE IF <<self, rhs>> \in {<<"Rock", "Paper">>, <<"Paper", "Scissors">>}
         THEN "Less"
         ELSE "Greater"

\* vs with the cycle run the other way round.
vs_Reversed(self, rhs) ==
    IF self = rhs THEN "Equal"
    ELSE IF <<self, rhs>> \in {<<"Paper", "Rock">>, <<"Scissors", "Paper">>,
                               <<"Rock", "Scissors">>}
         THEN "Less"
         ELSE "Greater"

\* Hand::vs, an Ordering seen from self.
vs(self, rhs) ==
    IF self = rhs THEN "Equal"
    ELSE IF <<self, rhs>> \in {<<"Rock", "Paper">>, <<"Paper", "Scissors">>,
                               <<"Scissors", "Rock">>}
         THEN "Less"
         ELSE "Greater"

\* Hand::as_icon (the emoji are written by their code points).
as_icon(h) ==
    CASE h = "Rock" -> "U+270A U+1F3FC"
      [] h = "Paper" -> "U+270B U+1F3FC"
      [] h = "Scissors" -> "U+270C U+1F3FC"

\* impl AsRef<str> for Hand.
as_ref(h) ==
    CASE h = "Rock" -> "rock"
      [] h = "Paper" -> "paper"
      [] h = "Scissors" -> "scissors"

\* A &str is the sequence of its characters.
UpperCase == <<"A", "B", "C", "D", "E", "F", "G", "H", "I", "J", "K", "L", "M",
               "N", "O", "P", "Q", "R", "S", "T", "U", "V", "W", "X", "Y", "Z",
               "U+212A">>
LowerCase == <<"a", "b", "c", "d", "e", "f", "g", "h", "i", "j", "k", "l", "m",
               "n", "o", "p", "q", "r", "s", "t", "u", "v", "w", "x", "y", "z",
               "k">>

\* char::to_lowercase on the letters A to Z and on the Kelvin sign U+212A,
\* whose lower case is k; every other character used here has none.
to_lowercase_char(c) ==
    IF \E i \in DOMAIN UpperCase : UpperCase[i] = c
    THEN LowerCase[CHOOSE i \in DOMAIN UpperCase : UpperCase[i] = c]
    ELSE c

\* str::to_lowercase.
to_lowercase(s) == [i \in 1..Len(s) |-> to_lowercase_char(s[i])]

RECURSIVE Join(_)
\* The characters of a &str as one string, as a match arm compares them.
Join(s) == IF s = << >> THEN "" ELSE Head(s) \o Join(Tail(s))

ParseHandError == "ParseHandError"

\* from_str with the wildcard arm giving Rock.
from_str_DefaultsToRock(s) ==
    LET lowered == Join(to_lowercase(s))
    IN  CASE lowered = "rock" -> "Rock"
          [] lowered = "paper" -> "Paper"
          [] lowered = "scissors" -> "Scissors"
          [] OTHER -> "Rock"

\* impl FromStr for Hand: Ok(hand) is the hand, Err(ParseHandError) the error.
from_str(s) ==
    LET lowered == Join(to_lowercase(s))
    IN  CASE lowered = "rock" -> "Rock"
          [] lowered = "paper" -> "Paper"
          [] lowered = "scissors" -> "Scissors"
          [] OTHER -> ParseHandError

\* ------------------------------------------------------------------ util
HexDigits == <<"0", "1", "2", "3", "4", "5", "6", "7",
               "8", "9", "a", "b", "c", "d", "e", "f">>

RECURSIVE bytes_to_hex(_)
\* util::bytes_to_hex: two lowercase hex digits per byte.
bytes_to_hex(bytes) ==
    IF bytes = << >> THEN ""
    ELSE HexDigits[(Head(bytes) \div 16) + 1] \o HexDigits[(Head(bytes) % 16) + 1]
         \o bytes_to_hex(Tail(bytes))

\* util::gen_random_bytes: n random bytes.  The k-th draw of a run is a
\* byte string no other draw of the run returns.
gen_random_bytes(n, k) == [i \in 1..n |-> (k * 97 + i * 31) % 256]

\* ----------------------------------------------------------- game.rs: Round
\* Sha256::digest formatted with {:x}: an injective, opaque function of its input.
Sha256Hex(input) == "sha256(" \o input \o ")"

\* Bytes of the nonce drawn by Round::random.
NonceBytes == 32
\* Bytes of the user id drawn by login.
UserIdBytes == 16

\* bytes_to_hex(&gen_random_bytes(n)) for the k-th random draw of a run, as
\* Round::random and login compute it (tabulated, so that it is computed once).
RandomHex ==
    [n \in {UserIdBytes, NonceBytes}, k \in 1..MaxReqs |->
        bytes_to_hex(gen_random_bytes(n, k))]

\* Round::random with the digest taken over the hand token followed by the
\* nonce.
RoundRandom_TokenFirst(hand, k) ==
    LET random_bytes_hex == RandomHex[NonceBytes, k]
        concat_str == as_ref(hand) \o random_bytes_hex
    IN  [computer |-> hand,
         random_bytes |-> random_bytes_hex,
         digest |-> Sha256Hex(concat_str)]

\* Round::random, with the hand Hand::random() chose and the k-th random draw.
RoundRandom(hand, k) ==
    LET random_bytes_hex == RandomHex[NonceBytes, k]
        concat_str == random_bytes_hex \o as_ref(hand)
    IN  [computer |-> hand,
         random_bytes |-> random_bytes_hex,
         digest |-> Sha256Hex(concat_str)]

\* --------------------------------------------------------- main.rs: Session
\* Session::new.  An Option is a sequence of at most one element.
SessionNew(user_name) ==
    [user_name |-> user_name,
     win_count |-> 0,
     tie_count |-> 0,
     loss_count |-> 0,
     last_round |-> << >>]

Digits == <<"0", "1", "2", "3", "4", "5", "6", "7", "8", "9">>

RECURSIVE Format(_)
\* format!("{}", n) of a usize: its decimal digits.
Format(n) ==
    IF n < 10 THEN Digits[n + 1]
    ELSE Format(n \div 10) \o Digits[(n % 10) + 1]

\* context.insert(key, value) on the template context.
Insert(context, key, value) == (key :> value) @@ context

EmptyContext == [k \in {} |-> ""]

NA == " (empty set sign) "

\* reset_last_view.
reset_last_view(context) ==
    LET c1 == Insert(context, "win_count", "0")
        c2 == Insert(c1, "tie_count", "0")
        c3 == Insert(c2, "loss_count", "0")
        c4 == Insert(c3, "last_human", NA)
        c5 == Insert(c4, "last_computer", NA)
        c6 == Insert(c5, "last_result", NA)
        c7 == Insert(c6, "last_random", NA)
        c8 == Insert(c7, "last_hand", NA)
    IN  Insert(c8, "last_digest", NA)

\* ------------------------------------------------------- main.rs: handlers
\* The match with a tie counted as a win as well.
Score_TieAlsoWins(session, hand) ==
    LET o == vs(session.last_round[1].computer, hand)
    IN  CASE o = "Greater" -> [session EXCEPT !.loss_count = @ + 1]
          [] o = "Equal" -> [session EXCEPT !.tie_count = @ + 1, !.win_count = @ + 1]
          [] o = "Less" -> [session EXCEPT !.win_count = @ + 1]

\* The match with no counter for a tie.
Score_TieNotCounted(session, hand) ==
    LET o == vs(session.last_round[1].computer, hand)
    IN  CASE o = "Greater" -> [session EXCEPT !.loss_count = @ + 1]
          [] o = "Equal" -> session
          [] o = "Less" -> [session EXCEPT !.win_count = @ + 1]

\* The match of user_play_index on last_round.computer.vs(&hand.0): the
\* session with the counter of the outcome incremented.
Score(session, hand) ==
    LET o == vs(session.last_round[1].computer, hand)
    IN  CASE o = "Greater" -> [session EXCEPT !.loss_count = @ + 1]
          [] o = "Equal" -> [session EXCEPT !.tie_count = @ + 1]
          [] o = "Less" -> [session EXCEPT !.win_count = @ + 1]

\* The result text of the same match.
ResultText(computer, hand) ==
    LET o == vs(computer, hand)
    IN  CASE o = "Greater" -> "Computer won"
          [] o = "Equal" -> "Tie"
          [] o = "Less" -> "You won"

\* The context user_play_index renders for a scored round: the counters of
\* the session after scoring and the reveal of last_round.
PlayView(context, session, hand, last_round) ==
    LET c1 == Insert(context, "win_count", Format(session.win_count))
        c2 == Insert(c1, "tie_count", Format(session.tie_count))
        c3 == Insert(c2, "loss_count", Format(session.loss_count))
        c4 == Insert(c3, "last_human", as_icon(hand))
        c5 == Insert(c4, "last_computer", as_icon(last_round.computer))
        c6 == Insert(c5, "last_result", ResultText(last_round.computer, hand))
        c7 == Insert(c6, "last_random", last_round.random_bytes)
        c8 == Insert(c7, "last_hand", as_ref(last_round.computer))
    IN  Insert(c8, "last_digest", last_round.digest)

\* The context of user_index with the hand of its round left in the view.
IndexView_ShowsHand(user, round) ==
    Insert(Insert(reset_last_view(Insert(EmptyContext, "user_name", user.name)),
                  "digest", round.digest),
           "last_hand", as_ref(round.computer))

\* The context user_index renders: the name, the reset last view and the
\* digest of the round it generated.
IndexView(user, round) ==
    Insert(reset_last_view(Insert(EmptyContext, "user_name", user.name)),
           "digest", round.digest)

\* The context user_play_index renders when the session is gone.
NoSessionView(user) ==
    reset_last_view(Insert(EmptyContext, "user_id", user.name))

\* user_index storing the round in a session made anew.
IssueRound_ResetsSession(session, round) ==
    [SessionNew(session.user_name) EXCEPT !.last_round = <<round>>]

\* user_index keeping a round that is still unanswered.
IssueRound_KeepsPending(session, round) ==
    IF session.last_round = << >>
    THEN [session EXCEPT !.last_round = <<round>>]
    ELSE session

\* session.last_round = Some(round) of user_index.
IssueRound(session, round) == [session EXCEPT !.last_round = <<round>>]

\* user_play_index leaving the scored round in place.
ReplaceRound_KeepsOld(session, round) == session

\* user_play_index taking the scored round out and storing none.
ReplaceRound_Takes(session, round) == [session EXCEPT !.last_round = << >>]

\* *last_round = round of user_play_index, on the session already scored.
ReplaceRound(session, round) == [session EXCEPT !.last_round = <<round>>]

VARIABLES
    sessions,   \* SESSIONS: user id -> Session
    lock,       \* the RwLock around it: the workers holding it for writing, its poison flag
    pc,         \* where each worker is in the request it serves
    req,        \* the request each worker serves, and the handler's locals
    rng,        \* number of random draws made so far
    cookies,    \* the (user_name, user_id) private cookies handed to clients
    reqCount,   \* requests accepted so far
    rendered,   \* the response produced last
    shown,      \* every digest rendered so far as the commitment of a new round
    revealed,   \* every nonce rendered so far as last_random
    scoreCount, \* nonce of a round -> number of times it was scored
    seenLog,    \* nonce of a round -> the answers that arrived while it was
                \* pending and scored: their number, their counter increments
    overwritten, \* nonce of every round user_index replaced while it was pending
    answers,    \* user id -> number of answers that scored a round of its session
    probe       \* a call of Hand::vs or Hand::from_str: its arguments, its result

vars == <<sessions, lock, pc, req, rng, cookies, reqCount, rendered,
          shown, revealed, scoreCount, seenLog, overwritten, answers, probe>>

\* The history variables, which no handler reads.
history == <<shown, revealed, scoreCount, seenLog, overwritten, answers>>

\* No call of Hand::vs or Hand::from_str is under observation.
NoProbe == [op |-> None, args |-> << >>, out |-> << >>]

IdleReq ==
    [route |-> None, seen |-> None, user |-> << >>, hand |-> None,
     round |-> << >>, new_id |-> None]

NoResponse == [route |-> None, status |-> None, context |-> EmptyContext]

Response(route, status, context) ==
    [route |-> route, status |-> status, context |-> context]

\* The nonce of the round pending for user id, None when there is none.
Pending(id) ==
    IF id \in DOMAIN sessions /\ sessions[id].last_round # << >>
    THEN sessions[id].last_round[1].random_bytes
    ELSE None

Init ==
    /\ sessions = [id \in {} |-> SessionNew("")]
    /\ lock = [writer |-> {}, poisoned |-> FALSE]
    /\ pc = [w \in Workers |-> "idle"]
    /\ req = [w \in Workers |-> IdleReq]
    /\ rng = 0
    /\ cookies = {}
    /\ reqCount = 0
    /\ rendered = NoResponse
    /\ shown = {}
    /\ revealed = {}
    /\ scoreCount = [n \in {} |-> 0]
    /\ seenLog = [n \in {} |-> [calls |-> 0, delta |-> 0]]
    /\ overwritten = {}
    /\ answers = [id \in {} |-> 0]
    /\ probe = NoProbe

\* The value a context holds under key, if any.
Field(context, key) == IF key \in DOMAIN context THEN {context[key]} ELSE {}

\* Function f with n added to its value at k (0 where it has none).
Add(f, k, n) == (k :> (IF k \in DOMAIN f THEN f[k] ELSE 0) + n) @@ f

\* Log f with one more answer that had seen round k and incremented by n.
Saw(f, k, n) ==
    LET old == IF k \in DOMAIN f THEN f[k] ELSE [calls |-> 0, delta |-> 0]
    IN  (k :> [calls |-> old.calls + 1, delta |-> old.delta + n]) @@ f

\* A request of an idle worker is accepted.
Accept(w) ==
    /\ pc[w] = "idle"
    /\ reqCount < MaxReqs
    /\ reqCount' = reqCount + 1

\* The worker's request ends with a response that renders no template.
Finish(w, route, status) ==
    /\ rendered' = Response(route, status, EmptyContext)
    /\ pc' = [pc EXCEPT ![w] = "idle"]
    /\ req' = [req EXCEPT ![w] = IdleReq]

\* The worker's request ends with the template rendered from context.
Render(w, context) ==
    /\ rendered' = Response(req[w].route, "rendered", context)
    /\ shown' = shown \cup Field(context, "digest")
    /\ revealed' = revealed \cup (Field(context, "last_random") \ {NA})
    /\ pc' = [pc EXCEPT ![w] = "idle"]
    /\ req' = [req EXCEPT ![w] = IdleReq]

\* The private cookies a request may carry: none, or ones login handed out
\* (each cookie is sealed on its own, so a client may present the name of one
\* login with the id of another).
CookiePairs ==
    {[user_name |-> None, user_id |-> None]}
        \cup {[user_name |-> a.user_name, user_id |-> b.user_id] : a, b \in cookies}

\* User::from_request, the guard of user_index and user_play_index, run on
\* the arrival of a request for either route.  SESSIONS.read() waits for a
\* writer; unwrap() panics on a poisoned lock.
FromRequest(w) ==
    /\ Accept(w)
    /\ \E route \in {"user_index", "user_play_index"}, ck \in CookiePairs :
          IF ck.user_name # None /\ ck.user_id # None
          THEN /\ lock.writer = {}
               /\ IF lock.poisoned
                  THEN Finish(w, route, "panic")
                  ELSE IF ck.user_id \in DOMAIN sessions
                          /\ sessions[ck.user_id].user_name = ck.user_name
                       THEN /\ req' = [req EXCEPT ![w] =
                                          [IdleReq EXCEPT
                                              !.route = route,
                                              !.seen = Pending(ck.user_id),
                                              !.user = <<[id |-> ck.user_id,
                                                          name |-> ck.user_name]>>]]
                            /\ pc' = [pc EXCEPT ![w] = "handler"]
                            /\ UNCHANGED rendered
                       ELSE Finish(w, route, "forward")
          ELSE Finish(w, route, "forward")
    /\ UNCHANGED <<sessions, lock, rng, cookies, history, probe>>

\* SESSIONS.write() granted without waiting for the writer that holds the lock.
AcquireWrite_NoWait(w, locals) ==
    IF lock.poisoned
    THEN /\ Finish(w, locals.route, "panic")
         /\ UNCHANGED lock
    ELSE /\ lock' = [lock EXCEPT !.writer = {w}]
         /\ pc' = [pc EXCEPT ![w] = "locked"]
         /\ req' = [req EXCEPT ![w] = locals]
         /\ UNCHANGED rendered

\* SESSIONS.write().unwrap() by worker w: waits until no writer holds the
\* lock; on a poisoned lock the unwrap panics and the request dies.
\* locals is the request with what the handler computed before the call.
AcquireWrite(w, locals) ==
    /\ lock.writer = {}
    /\ IF lock.poisoned
       THEN /\ Finish(w, locals.route, "panic")
            /\ UNCHANGED lock
       ELSE /\ lock' = [lock EXCEPT !.writer = {w}]
            /\ pc' = [pc EXCEPT ![w] = "locked"]
            /\ req' = [req EXCEPT ![w] = locals]
            /\ UNCHANGED rendered

\* The write guard is dropped at the end of the handler.
ReleaseWrite == lock' = [lock EXCEPT !.writer = {}]

\* The write guard is dropped while the handler unwinds from a panic.
ReleasePoisoned == lock' = [writer |-> {}, poisoned |-> TRUE]

\* login, up to SESSIONS.write(): the user id is drawn first.
Login(w) ==
    /\ Accept(w)
    /\ rng' = rng + 1
    /\ AcquireWrite(w, [IdleReq EXCEPT
                           !.route = "login",
                           !.new_id = RandomHex[UserIdBytes, rng + 1]])
    /\ UNCHANGED <<sessions, cookies, history, probe>>

\* login storing the new session as the whole registry.
LoginLocked_Replaces(w) ==
    /\ pc[w] = "locked" /\ req[w].route = "login"
    /\ \E user_name \in Names :
          /\ sessions' = (req[w].new_id :> SessionNew(user_name))
          /\ cookies' = cookies \cup
                 {[user_name |-> user_name, user_id |-> req[w].new_id]}
    /\ ReleaseWrite
    /\ Finish(w, "login", "redirect")
    /\ UNCHANGED <<rng, reqCount, history, probe>>

\* login under the write lock: the session is inserted under the new id; the
\* response carries the two private cookies and redirects to "/".
LoginLocked(w) ==
    /\ pc[w] = "locked" /\ req[w].route = "login"
    /\ \E user_name \in Names :
          /\ sessions' = (req[w].new_id :> SessionNew(user_name)) @@ sessions
          /\ cookies' = cookies \cup
                 {[user_name |-> user_name, user_id |-> req[w].new_id]}
    /\ ReleaseWrite
    /\ Finish(w, "login", "redirect")
    /\ UNCHANGED <<rng, reqCount, history, probe>>

\* logout, up to SESSIONS.write(): without a user_id cookie the registry is
\* not touched.
Logout(w) ==
    /\ Accept(w)
    /\ \E ck \in CookiePairs :
          IF ck.user_id = None
          THEN Finish(w, "logout", "redirect") /\ UNCHANGED lock
          ELSE AcquireWrite(w, [IdleReq EXCEPT
                                   !.route = "logout",
                                   !.user = <<[id |-> ck.user_id, name |-> None]>>])
    /\ UNCHANGED <<sessions, rng, cookies, history, probe>>

\* logout under the write lock: sessions.remove(user_id).
LogoutLocked(w) ==
    /\ pc[w] = "locked" /\ req[w].route = "logout"
    /\ sessions' = [id \in DOMAIN sessions \ {req[w].user[1].id} |-> sessions[id]]
    /\ ReleaseWrite
    /\ Finish(w, "logout", "redirect")
    /\ UNCHANGED <<rng, cookies, reqCount, history, probe>>

\* user_index, up to SESSIONS.write(): the round is generated and its digest
\* put into the context before the lock is taken.
UserIndex(w) ==
    /\ pc[w] = "handler" /\ req[w].route = "user_index"
    /\ rng' = rng + 1
    /\ \E computer \in Hands :
          AcquireWrite(w, [req[w] EXCEPT !.round = <<RoundRandom(computer, rng + 1)>>])
    /\ UNCHANGED <<sessions, cookies, reqCount, history, probe>>

\* user_index making a session for a user id the registry does not hold.
UserIndexLocked_Upserts(w) ==
    /\ pc[w] = "locked" /\ req[w].route = "user_index"
    /\ LET id == req[w].user[1].id
           session == IF id \in DOMAIN sessions THEN sessions[id]
                                                ELSE SessionNew(req[w].user[1].name)
       IN  sessions' = (id :> IssueRound(session, req[w].round[1])) @@ sessions
    /\ overwritten' = overwritten \cup ({Pending(req[w].user[1].id)} \ {None})
    /\ ReleaseWrite
    /\ Render(w, IndexView(req[w].user[1], req[w].round[1]))
    /\ UNCHANGED <<rng, cookies, reqCount, scoreCount, seenLog, answers, probe>>

\* user_index under the write lock: the round becomes the session's
\* last_round when the session is still there; the template is rendered
\* either way.
UserIndexLocked(w) ==
    /\ pc[w] = "locked" /\ req[w].route = "user_index"
    /\ LET id == req[w].user[1].id IN
       sessions' = IF id \in DOMAIN sessions
                   THEN [sessions EXCEPT ![id] = IssueRound(@, req[w].round[1])]
                   ELSE sessions
    /\ overwritten' = overwritten \cup ({Pending(req[w].user[1].id)} \ {None})
    /\ ReleaseWrite
    /\ Render(w, IndexView(req[w].user[1], req[w].round[1]))
    /\ UNCHANGED <<rng, cookies, reqCount, scoreCount, seenLog, answers, probe>>

\* user_play_index, up to SESSIONS.write(), with the hand the form guard
\* UserHand parsed from the query.
UserPlayIndex(w) ==
    /\ pc[w] = "handler" /\ req[w].route = "user_play_index"
    /\ \E hand \in Hands : AcquireWrite(w, [req[w] EXCEPT !.hand = hand])
    /\ UNCHANGED <<sessions, rng, cookies, reqCount, history, probe>>

Total(session) == session.win_count + session.tie_count + session.loss_count

\* user_play_index under the write lock, Some(session) with a last_round:
\* the round is scored against the submitted hand and revealed, and a new
\* round replaces it.
UserPlayIndexScore(w) ==
    /\ pc[w] = "locked" /\ req[w].route = "user_play_index"
    /\ req[w].user[1].id \in DOMAIN sessions
    /\ sessions[req[w].user[1].id].last_round # << >>
    /\ \E computer \in Hands :
          LET id == req[w].user[1].id
              hand == req[w].hand
              session == sessions[id]
              last_round == session.last_round[1]
              scored == Score(session, hand)
              round == RoundRandom(computer, rng + 1)
              context == PlayView(Insert(EmptyContext, "user_id", req[w].user[1].name),
                                  scored, hand, last_round)
          IN  /\ sessions' = [sessions EXCEPT ![id] = ReplaceRound(scored, round)]
              /\ scoreCount' = Add(scoreCount, last_round.random_bytes, 1)
              /\ seenLog' = Saw(seenLog, req[w].seen,
                                Total(sessions'[id]) - Total(session))
              /\ answers' = Add(answers, id, 1)
              /\ Render(w, Insert(context, "digest", round.digest))
    /\ rng' = rng + 1
    /\ ReleaseWrite
    /\ UNCHANGED <<cookies, reqCount, overwritten, probe>>

\* user_play_index under the write lock, Some(session) without a last_round:
\* expect() panics, and the write guard dropped by the unwinding poisons
\* SESSIONS.
UserPlayIndexPanic(w) ==
    /\ pc[w] = "locked" /\ req[w].route = "user_play_index"
    /\ req[w].user[1].id \in DOMAIN sessions
    /\ sessions[req[w].user[1].id].last_round = << >>
    /\ ReleasePoisoned
    /\ Finish(w, "user_play_index", "panic")
    /\ UNCHANGED <<sessions, rng, cookies, reqCount, history, probe>>

\* user_play_index under the write lock, no session under the user id.
UserPlayIndexNoSession(w) ==
    /\ pc[w] = "locked" /\ req[w].route = "user_play_index"
    /\ req[w].user[1].id \notin DOMAIN sessions
    /\ ReleaseWrite
    /\ Render(w, NoSessionView(req[w].user[1]))
    /\ UNCHANGED <<sessions, rng, cookies, reqCount, scoreCount, seenLog,
                   overwritten, answers, probe>>

Next ==
    \E w \in Workers :
        \/ FromRequest(w)
        \/ Login(w)
        \/ LoginLocked(w)
        \/ Logout(w)
        \/ LogoutLocked(w)
        \/ UserIndex(w)
        \/ UserIndexLocked(w)
        \/ UserPlayIndex(w)
        \/ UserPlayIndexScore(w)
        \/ UserPlayIndexPanic(w)
        \/ UserPlayIndexNoSession(w)

Spec == Init /\ [][Next]_vars

\* ------------------------------------------- Hand::vs and Hand::from_str
\* Longest token made of the characters of TokenChars.
MaxTokenLen == 4

\* Characters the generated tokens are made of.
TokenChars == {"r", "o", "c", "k", "R"}

RECURSIVE TokensOfLen(_)
\* The tokens of n characters of TokenChars.
TokensOfLen(n) ==
    IF n = 0 THEN {<< >>}
    ELSE {Append(t, c) : t \in TokensOfLen(n - 1), c \in TokenChars}

\* The values of a form field "hand": the three tokens in lower, upper and
\* mixed case, near misses, and every short token over TokenChars.
Tokens ==
    {<<"r", "o", "c", "k">>, <<"p", "a", "p", "e", "r">>,
     <<"s", "c", "i", "s", "s", "o", "r", "s">>,
     <<"R", "O", "C", "K">>, <<"P", "a", "p", "e", "r">>,
     <<"s", "C", "i", "S", "s", "O", "r", "S">>,
     <<"r", "o", "c", "U+212A">>,
     <<"r", "o", "c", "k", "k">>, <<"r", "o", "c", "k", " ">>,
     <<"p", "a", "p", "e">>, <<"s", "c", "i", "s", "s", "o", "r">>,
     <<"s", "t", "o", "n", "e">>, <<"0">>, <<" ">>}
        \cup UNION {TokensOfLen(n) : n \in 0..MaxTokenLen}

\* The calls under observation, before they are made.
ProbeInputs ==
    {[op |-> "vs", args |-> <<a, b>>, out |-> << >>] : a, b \in Hands}
        \cup {[op |-> "from_str", args |-> <<t>>, out |-> << >>] : t \in Tokens}

\* The server as constructed, with one call to observe.
HandInit ==
    /\ probe \in ProbeInputs
    /\ sessions = [id \in {} |-> SessionNew("")]
    /\ lock = [writer |-> {}, poisoned |-> FALSE]
    /\ pc = [w \in Workers |-> "idle"]
    /\ req = [w \in Workers |-> IdleReq]
    /\ rng = 0
    /\ cookies = {}
    /\ reqCount = 0
    /\ rendered = NoResponse
    /\ shown = {}
    /\ revealed = {}
    /\ scoreCount = [n \in {} |-> 0]
    /\ seenLog = [n \in {} |-> [calls |-> 0, delta |-> 0]]
    /\ overwritten = {}
    /\ answers = [id \in {} |-> 0]

\* The variables of the server proper.
server == <<sessions, lock, pc, req, rng, cookies, reqCount, rendered>>

\* self.vs(&rhs) is called.
CallVs ==
    /\ probe.op = "vs" /\ probe.out = << >>
    /\ probe' = [probe EXCEPT !.out = <<vs(probe.args[1], probe.args[2])>>]
    /\ UNCHANGED <<server, history>>

\* Hand::from_str(value) is called, as UserHand::from_form calls it.
CallFromStr ==
    /\ probe.op = "from_str" /\ probe.out = << >>
    /\ probe' = [probe EXCEPT !.out = <<from_str(probe.args[1])>>]
    /\ UNCHANGED <<server, history>>

HandNext == CallVs \/ CallFromStr

HandSpec == HandInit /\ [][HandNext]_vars

\* ------------------------------------------------------------- properties
\* The user id of the request worker w serves.
UserId(w) == req[w].user[1].id

\* This step is worker w ending user_play_index for a session it found.
AnswerStep(w) ==
    /\ pc[w] = "locked" /\ req[w].route = "user_play_index"
    /\ pc'[w] = "idle"
    /\ UserId(w) \in DOMAIN sessions

\* This step is worker w scoring the pending round of its user's session.
ScoreStep(w) == AnswerStep(w) /\ sessions[UserId(w)].last_round # << >>

\* This step is worker w ending user_index for a session that is there.
IssueStep(w) ==
    /\ pc[w] = "locked" /\ req[w].route = "user_index"
    /\ pc'[w] = "idle"
    /\ UserId(w) \in DOMAIN sessions

\* The three counters of a session.
Counters(session) == <<session.win_count, session.tie_count, session.loss_count>>

\* The counters a rendered context shows.
ShownCounters(context) ==
    <<context["win_count"], context["tie_count"], context["loss_count"]>>

\* Hand a beats hand b: Rock beats Scissors, Scissors beats Paper, Paper
\* beats Rock.
Beats(a, b) ==
    <<a, b>> \in {<<"Rock", "Scissors">>, <<"Scissors", "Paper">>, <<"Paper", "Rock">>}

\* C1: an answer submitted for a session without a pending round ends with a
\* rendered (recoverable, no-pending-round) response, leaves the registry
\* usable and leaves the counters and the pending-round slot of the session
\* unchanged.
C1_NoPendingRoundIsRecoverable ==
    [][\A w \in Workers :
          AnswerStep(w) /\ sessions[UserId(w)].last_round = << >>
              => /\ sessions' = sessions
                 /\ rendered'.status = "rendered"
                 /\ ~lock'.poisoned]_vars

\* C2 as stated: the answers that arrived while one round was pending
\* increase the counters by one in total.
C2_OneIncrementInTotal ==
    \A n \in DOMAIN seenLog \ {None} : seenLog[n].delta <= 1

\* C2 as amended: of the answers that arrived while one round was pending,
\* each one that is scored increases the counters by exactly one, so that
\* they increase them by the number of such answers, and the round they saw
\* pending is scored at most once.
C2_OneIncrementPerAnswer ==
    \A n \in DOMAIN seenLog \ {None} :
        /\ seenLog[n].delta = seenLog[n].calls
        /\ n \in DOMAIN scoreCount => scoreCount[n] = 1

\* Two answers that arrived while the same round was pending were both scored.
C2_TwoConcurrentAnswersScored ==
    \E n \in DOMAIN seenLog \ {None} : seenLog[n].calls >= 2

\* C3: every generated round, identified by its nonce, is revealed and scored
\* at most once, whatever the interleaving of challenges and answers.
C3_RoundScoredAtMostOnce ==
    \A n \in DOMAIN scoreCount : scoreCount[n] <= 1

\* One session has had two rounds scored, after two answers raced for one.
C3_TwoRoundsScored ==
    /\ \E id \in DOMAIN sessions : Total(sessions[id]) >= 2
    /\ Cardinality(DOMAIN scoreCount) >= 2
    /\ \E n \in DOMAIN seenLog : seenLog[n].calls >= 2

\* C4: an answer given while a round is pending increases exactly one counter
\* by one and leaves the other two: win_count when the user's hand beats the
\* computer's, tie_count when they are equal, loss_count when the computer's
\* beats the user's.
C4_ExactlyOneCounter ==
    [][\A w \in Workers :
          ScoreStep(w) =>
              LET old == sessions[UserId(w)]
                  new == sessions'[UserId(w)]
                  computer == old.last_round[1].computer
                  hand == req[w].hand
                  plus == [win |-> new.win_count - old.win_count,
                           tie |-> new.tie_count - old.tie_count,
                           loss |-> new.loss_count - old.loss_count]
              IN  /\ Beats(hand, computer) => plus = [win |-> 1, tie |-> 0, loss |-> 0]
                  /\ hand = computer => plus = [win |-> 0, tie |-> 1, loss |-> 0]
                  /\ Beats(computer, hand) => plus = [win |-> 0, tie |-> 0, loss |-> 1]
                  /\ Beats(hand, computer) \/ hand = computer \/ Beats(computer, hand)]_vars

\* A session has won one round and lost another.
C4_WonAndLost ==
    \E id \in DOMAIN sessions :
        sessions[id].win_count = 1 /\ sessions[id].loss_count = 1

\* Every pending round satisfies the commitment relation, and its commitment
\* was rendered.
PendingCommitted ==
    \A id \in DOMAIN sessions :
        sessions[id].last_round # << >> =>
            LET r == sessions[id].last_round[1]
            IN  /\ r.digest = Sha256Hex(r.random_bytes \o as_ref(r.computer))
                /\ r.digest \in shown

\* C5: every round stored as pending has the commitment
\* digest(hex(nonce) + hand_token(computer_hand)), which was rendered when the
\* round was issued; and what a scoring answer reveals (nonce, computer hand,
\* commitment) is that of the round that was pending before the answer.
C5_CommitmentReproducible ==
    [][/\ PendingCommitted'
       /\ \A w \in Workers :
             ScoreStep(w) =>
                 LET r == sessions[UserId(w)].last_round[1]
                     c == rendered'.context
                 IN  /\ c["last_random"] = r.random_bytes
                     /\ c["last_hand"] = as_ref(r.computer)
                     /\ c["last_computer"] = as_icon(r.computer)
                     /\ c["last_digest"] = r.digest
                     /\ c["last_digest"] \in shown
                     /\ c["last_digest"] = Sha256Hex(c["last_random"] \o c["last_hand"])]_vars

\* An answer has revealed a round whose commitment had been rendered.
C5_RoundRevealed ==
    /\ rendered.route = "user_play_index" /\ rendered.status = "rendered"
    /\ "last_digest" \in DOMAIN rendered.context
    /\ rendered.context["last_digest"] \in shown
    /\ rendered.context["last_random"] \in revealed

\* The keys of the context an answer renders with its reveal.
PlayKeys ==
    {"user_id", "win_count", "tie_count", "loss_count", "last_human",
     "last_computer", "last_result", "last_random", "last_hand", "last_digest",
     "digest"}

\* No pending round has had its nonce rendered.
PendingHidden ==
    \A id \in DOMAIN sessions :
        sessions[id].last_round # << >> =>
            LET r == sessions[id].last_round[1]
            IN  /\ r.random_bytes \notin revealed
                /\ \A k \in DOMAIN rendered.context : rendered.context[k] # r.random_bytes

\* C6: the nonce and the computer hand of a round are in no output while the
\* round is pending.  user_index renders of its round the commitment alone; a
\* scoring answer renders the nonce and the hand of the round it has just
\* replaced, and of the new round the commitment alone.
C6_SecretsHiddenWhilePending ==
    [][/\ PendingHidden'
       /\ \A w \in Workers :
             pc[w] = "locked" /\ req[w].route = "user_index" /\ pc'[w] = "idle" =>
                 LET r == req[w].round[1]
                     c == rendered'.context
                 IN  /\ c["digest"] = r.digest
                     /\ \A k \in DOMAIN c \ {"digest"} :
                           c[k] \notin {r.random_bytes, as_ref(r.computer), as_icon(r.computer)}
       /\ \A w \in Workers :
             ScoreStep(w) =>
                 LET old == sessions[UserId(w)].last_round[1]
                     new == sessions'[UserId(w)].last_round[1]
                     c == rendered'.context
                 IN  /\ DOMAIN c = PlayKeys
                     /\ c["digest"] = new.digest
                     /\ c["last_random"] = old.random_bytes
                     /\ c["last_hand"] = as_ref(old.computer)
                     /\ c["last_computer"] = as_icon(old.computer)
                     /\ old.random_bytes \notin revealed
                     /\ new.random_bytes # old.random_bytes
                     /\ \A k \in DOMAIN c : c[k] # new.random_bytes]_vars

\* A round is pending after another round of the same session was revealed.
C6_PendingAfterReveal ==
    \E id \in DOMAIN sessions :
        /\ sessions[id].last_round # << >>
        /\ Total(sessions[id]) >= 1
        /\ revealed # {}
        /\ sessions[id].last_round[1].digest \in shown

\* C7: the counters every challenge and every answer renders are the counters
\* stored in the user's session after the operation.
C7_RenderedCountersAreStored ==
    [][\A w \in Workers :
          (IssueStep(w) \/ AnswerStep(w)) /\ rendered'.status = "rendered" =>
              ShownCounters(rendered'.context) =
                  <<Format(sessions'[UserId(w)].win_count),
                    Format(sessions'[UserId(w)].tie_count),
                    Format(sessions'[UserId(w)].loss_count)>>]_vars

\* C8: no request leaves the registry unusable: SESSIONS is never poisoned,
\* so that every later request can acquire it.
C8_RegistryStaysUsable == ~lock.poisoned

\* C9: no counter of a session ever decreases, and the counters of a session
\* change only in a step that scores an answer for that session.
C9_CountersMonotone ==
    [][\A id \in DOMAIN sessions \cap DOMAIN sessions' :
          /\ sessions'[id].win_count >= sessions[id].win_count
          /\ sessions'[id].tie_count >= sessions[id].tie_count
          /\ sessions'[id].loss_count >= sessions[id].loss_count
          /\ Counters(sessions'[id]) # Counters(sessions[id]) =>
                 \E w \in Workers : ScoreStep(w) /\ UserId(w) = id]_vars

\* A session with a scored round has been issued a challenge again.
C9_ScoredThenIssued ==
    \E id \in DOMAIN sessions :
        /\ Total(sessions[id]) >= 1
        /\ sessions[id].last_round # << >>
        /\ rendered.route = "user_index" /\ rendered.status = "rendered"
        /\ rendered.context["digest"] = sessions[id].last_round[1].digest

\* C10: a session that has a pending round has one in every later state in
\* which it exists; a scoring answer leaves a newly generated pending round,
\* different from the one it revealed, whose commitment is the one it renders.
C10_PendingRoundStays ==
    [][/\ \A id \in DOMAIN sessions \cap DOMAIN sessions' :
             sessions[id].last_round # << >> => sessions'[id].last_round # << >>
       /\ \A w \in Workers :
             ScoreStep(w) =>
                 /\ sessions'[UserId(w)].last_round # << >>
                 /\ sessions'[UserId(w)].last_round # sessions[UserId(w)].last_round
                 /\ sessions'[UserId(w)].last_round[1].random_bytes #
                        sessions[UserId(w)].last_round[1].random_bytes
                 /\ rendered'.context["digest"] =
                        sessions'[UserId(w)].last_round[1].digest]_vars

\* A session still has a pending round after two of its rounds were scored.
C10_PendingAfterTwoAnswers ==
    \E id \in DOMAIN sessions :
        /\ Total(sessions[id]) = 2
        /\ sessions[id].last_round # << >>
        /\ rendered.route = "user_play_index"
        /\ rendered.context["digest"] = sessions[id].last_round[1].digest

\* This step is worker w ending login.
LoginStep(w) == pc[w] = "locked" /\ req[w].route = "login" /\ pc'[w] = "idle"

\* C11: login adds exactly one entry, under a user id the registry did not
\* hold, with the display name of the cookie it hands out, counters (0,0,0)
\* and no pending round, and leaves every other entry as it was.
C11_LoginAddsOneSession ==
    [][\A w \in Workers :
          LoginStep(w) =>
              LET id == req[w].new_id IN
              /\ id \notin DOMAIN sessions
              /\ DOMAIN sessions' = DOMAIN sessions \cup {id}
              /\ sessions'[id].user_name \in Names
              /\ cookies' = cookies \cup
                     {[user_name |-> sessions'[id].user_name, user_id |-> id]}
              /\ Counters(sessions'[id]) = <<0, 0, 0>>
              /\ sessions'[id].last_round = << >>
              /\ \A other \in DOMAIN sessions : sessions'[other] = sessions[other]]_vars

\* A second login under a display name that already has a session with a
\* pending round.
C11_SecondLoginSameName ==
    /\ rendered.route = "login" /\ rendered.status = "redirect"
    /\ \E a, b \in DOMAIN sessions :
          /\ a # b
          /\ sessions[a].user_name = sessions[b].user_name
          /\ sessions[a].last_round # << >>
          /\ sessions[b].last_round = << >>

\* The user id the operation of worker w is about.
OwnId(w) == IF req[w].route = "login" THEN req[w].new_id ELSE UserId(w)

\* The next step of an authenticated request that has not yet called
\* SESSIONS.write(): the call, made by user_index or by user_play_index.
TakeLock(w) == UserIndex(w) \/ UserPlayIndex(w)

C16_IssueOverwritesPending ==
    [][/\ \A w \in Workers :
             IssueStep(w) =>
                 LET id == UserId(w)
                     round == sessions'[id].last_round[1]
                 IN  /\ sessions'[id].last_round # << >>
                     /\ round = req[w].round[1]
                     /\ round.random_bytes # Pending(id)
                     /\ rendered'.status = "rendered"
                     /\ Field(rendered'.context, "digest") = {round.digest}
                     /\ Counters(sessions'[id]) = Counters(sessions[id])
                     /\ sessions'[id].user_name = sessions[id].user_name
       /\ overwritten' \cap (DOMAIN scoreCount' \cup revealed') = {}]_vars

\* A round was overwritten by user_index while unanswered, and the round that
\* took its place has been answered since.
C16_AnsweredAfterReissue ==
    /\ overwritten # {}
    /\ rendered.route = "user_play_index" /\ rendered.status = "rendered"
    /\ \E id \in DOMAIN answers : answers[id] >= 1
    /\ \E n \in overwritten : \E m \in DOMAIN scoreCount : n # m

\* This step is worker w ending user_index or user_play_index for a user the
\* guard found whose session has been removed since.
OrphanStep(w) ==
    /\ pc[w] = "locked" /\ req[w].route \in {"user_index", "user_play_index"}
    /\ pc'[w] = "idle"
    /\ UserId(w) \notin DOMAIN sessions

\* The digests of the rounds pending in some session.
PendingDigests ==
    {sessions[id].last_round[1].digest :
        id \in {i \in DOMAIN sessions : sessions[i].last_round # << >>}}

\* C17: a request whose session a logout removed between the guard and the
\* handler is answered as the guard answers a request that is not
\* authenticated: no registry entry is created, no counter changes and no
\* commitment is rendered for a round that is not pending in some session.
C17_RemovedSessionIsUnauthenticated ==
    [][\A w \in Workers :
          OrphanStep(w) =>
              /\ sessions' = sessions
              /\ rendered'.status = "forward"
              /\ Field(rendered'.context, "digest") \subseteq PendingDigests']_vars

\* This step is worker w ending logout with a user_id cookie.
LogoutStep(w) == pc[w] = "locked" /\ req[w].route = "logout" /\ pc'[w] = "idle"

\* C18: the set of user ids in the registry changes only by a login, which
\* adds one id it did not hold, and by a logout, which removes at most the id
\* of the cookie presented; user_index and user_play_index leave it as it is,
\* also for a user id that has no entry.
C18_OnlyLoginAndLogoutChangeIds ==
    [][/\ DOMAIN sessions' # DOMAIN sessions
              => \E w \in Workers : LoginStep(w) \/ LogoutStep(w)
       /\ \A w \in Workers :
             /\ LoginStep(w) =>
                    /\ req[w].new_id \notin DOMAIN sessions
                    /\ DOMAIN sessions' = DOMAIN sessions \cup {req[w].new_id}
             /\ LogoutStep(w) =>
                    DOMAIN sessions' = DOMAIN sessions \ {UserId(w)}
             /\ (pc[w] = "locked" /\ pc'[w] = "idle"
                    /\ req[w].route \in {"user_index", "user_play_index"})
                    => DOMAIN sessions' = DOMAIN sessions]_vars

\* user_index has been served for a user id without an entry, after the one
\* login and a logout, and the registry is empty.
C18_ServedWithoutEntry ==
    /\ rendered.route = "user_index" /\ rendered.status = "rendered"
    /\ cookies # {}
    /\ DOMAIN sessions = {}
    /\ \A w \in Workers : pc[w] = "idle"

\* The number of answers that scored a round of the session under id.
Answered(id) == IF id \in DOMAIN answers THEN answers[id] ELSE 0

\* C19: for every session of the registry the three counters add up to the
\* number of user_play_index calls that scored a round of that session since
\* login created it.
C19_CountersSumToAnswers ==
    \A id \in DOMAIN sessions : Total(sessions[id]) = Answered(id)

\* A session that has scored two answers, one of them a tie.
C19_TwoAnswersOneTie ==
    \E id \in DOMAIN sessions :
        /\ Answered(id) = 2
        /\ sessions[id].tie_count = 1

\* The Ordering seen from the other side (Ordering::reverse).
Inverse(o) ==
    CASE o = "Less" -> "Greater"
      [] o = "Equal" -> "Equal"
      [] o = "Greater" -> "Less"

\* The call of vs under observation has returned.
VsReturned == probe.op = "vs" /\ probe.out # << >>

\* The call of from_str under observation has returned.
FromStrReturned == probe.op = "from_str" /\ probe.out # << >>

\* C13: vs(a, b) is the inverse of vs(b, a) for every pair of hands (Greater
\* and Less swap, Equal stays), and vs(a, a) is Equal for every hand.
C13_VsAntisymmetric ==
    VsReturned =>
        LET a == probe.args[1]
            b == probe.args[2]
        IN  /\ probe.out[1] = Inverse(vs(b, a))
            /\ a = b => probe.out[1] = "Equal"
            /\ probe.out[1] = "Equal" => vs(b, a) = "Equal"

\* vs has returned Greater for a pair of different hands.
C13_GreaterReturned ==
    VsReturned /\ probe.args[1] # probe.args[2] /\ probe.out[1] = "Greater"

\* C14: vs returns Greater exactly when self beats rhs in the cycle Rock
\* beats Scissors, Scissors beats Paper, Paper beats Rock; every hand is
\* beaten by exactly one hand and beats exactly one, and the relation is not
\* transitive.
C14_BeatsIsThreeCycle ==
    VsReturned =>
        LET a == probe.args[1]
            b == probe.args[2]
            beats(x, y) == vs(x, y) = "Greater"
        IN  /\ probe.out[1] = "Greater" <=> Beats(a, b)
            /\ probe.out[1] = "Less" <=> Beats(b, a)
            /\ Cardinality({x \in Hands : beats(x, a)}) = 1
            /\ Cardinality({x \in Hands : beats(a, x)}) = 1
            /\ \E x \in Hands : beats(a, x) /\
                  \E y \in Hands : beats(x, y) /\ ~beats(a, y)

\* vs has returned Greater for Rock against Scissors, the pair that closes
\* the cycle.
C14_RockBeatsScissors ==
    VsReturned /\ probe.args = <<"Rock", "Scissors">> /\ probe.out[1] = "Greater"

\* C15: from_str returns hand h exactly when the lower-cased token is
\* as_ref(h), and ParseHandError for every other token, the empty one and
\* "rockk" among them; from_str(as_ref(h)) is h, and no token that fails is
\* given a hand.
C15_ParseInvertsDisplayToken ==
    FromStrReturned =>
        LET token == probe.args[1]
            lowered == Join(to_lowercase(token))
            out == probe.out[1]
        IN  /\ out \in Hands \cup {ParseHandError}
            /\ \A h \in Hands : out = h <=> lowered = as_ref(h)
            /\ out = ParseHandError <=> lowered \notin {as_ref(h) : h \in Hands}
            /\ \A h \in Hands : Join(token) = as_ref(h) => out = h
            /\ Join(token) \in {"", "rockk"} => out = ParseHandError

\* from_str has failed on "rockk".
C15_RockkRejected ==
    /\ FromStrReturned
    /\ Join(probe.args[1]) = "rockk"
    /\ probe.out[1] = ParseHandError

====
